---------------------------- MODULE Spec2Model ----------------------------
(***************************************************************************)
(* pikt: the safe Rust wrapper around the pikchr diagram engine.           *)
(*                                                                         *)
(* The model covers OptionsBuilder / Options, render, render_with and      *)
(* PiktError::from_str of src/src/lib.rs.  Text is modelled as a sequence  *)
(* of one-character strings, so that contains / lines / starts_with /      *)
(* ends_with / len / split_once are computed as the code computes them.    *)
(* The native engine (pikchr.c) is not part of the sources at hand; its    *)
(* boundary behaviour is modelled from the specification, the module docs  *)
(* of pikchr-sys and the expected values of the tests in src/src/lib.rs.   *)
(***************************************************************************)
EXTENDS Integers, Sequences, FiniteSets, TLC

(***************************************************************************)
(* Bounds of the model.                                                    *)
(***************************************************************************)
\* The number of OptionsBuilder setter calls made before rendering.
MaxCalls == 2

(***************************************************************************)
(* Text helpers (std::str).                                                *)
(***************************************************************************)
\* The NUL byte, as one element of a text.
NUL == "NUL"

\* str::starts_with
StartsWith(s, p) == Len(s) >= Len(p) /\ SubSeq(s, 1, Len(p)) = p

\* str::ends_with
EndsWith(s, p) == Len(s) >= Len(p) /\ SubSeq(s, Len(s) - Len(p) + 1, Len(s)) = p

\* str::contains
Contains(s, p) ==
    \E i \in 1..(Len(s) - Len(p) + 1) : SubSeq(s, i, i + Len(p) - 1) = p

\* The index of the first occurrence of character c in s, 0 when there is none.
IndexOf(s, c) ==
    IF \E i \in 1..Len(s) : s[i] = c
    THEN CHOOSE i \in 1..Len(s) : s[i] = c /\ \A j \in 1..(i - 1) : s[j] # c
    ELSE 0

\* A line of str::lines loses the "\r" of a "\r\n" ending.
StripCR(line) ==
    IF Len(line) > 0 /\ line[Len(line)] = "\r"
    THEN SubSeq(line, 1, Len(line) - 1)
    ELSE line

\* str::lines: split at "\n"; a final line needs no terminator, and an empty
\* remainder after the last "\n" gives no line.
RECURSIVE Lines(_)
Lines(s) ==
    IF s = <<>> THEN <<>>
    ELSE LET i == IndexOf(s, "\n") IN
         IF i = 0 THEN <<s>>
         ELSE <<StripCR(SubSeq(s, 1, i - 1))>> \o Lines(SubSeq(s, i + 1, Len(s)))

\* str::split_once(' '): the text after the first space, or "none".
SplitOnceSpace(line) ==
    LET i == IndexOf(line, " ") IN
    IF i = 0 THEN [found |-> FALSE, rest |-> <<>>]
    ELSE [found |-> TRUE, rest |-> SubSeq(line, i + 1, Len(line))]

\* CString::new fails with a NulError when the text holds a NUL byte.
HasNul(s) == \E i \in 1..Len(s) : s[i] = NUL

(***************************************************************************)
(* PiktError and PiktError::from_str.                                      *)
(***************************************************************************)
\* A PiktError value: the variant and its fields (message of Other, line,
\* column).  Variants without a field carry the empty message and zeros.
PiktError(variant, msg, line, col) ==
    [variant |-> variant, msg |-> msg, line |-> line, col |-> col]

\* let line_padding = 12;
line_padding == 12

\* let mut message = "unknown error";
UnknownErrorMessage == <<"u", "n", "k", "n", "o", "w", "n", " ", "e", "r", "r", "o", "r">>

\* The needles of the two early returns of from_str.
StackOverflowNeedle == <<"p", "a", "r", "s", "e", "r", " ", "s", "t", "a", "c", "k", " ", "o", "v", "e", "r", "f", "l", "o", "w">>
OutOfMemoryNeedle == <<"O", "u", "t", " ", "o", "f", " ", "m", "e", "m", "o", "r", "y">>

\* The arms of `match message`, in source order: <<message, variant>>.
ErrorTable == <<
    << <<"d", "i", "v", "i", "s", "i", "o", "n", " ", "b", "y", " ", "z", "e", "r", "o">>, "DivisionByZero" >>,
    << <<"s", "y", "n", "t", "a", "x", " ", "e", "r", "r", "o", "r">>, "SyntaxError" >>,
    << <<"a", "r", "c", " ", "g", "e", "o", "m", "e", "t", "r", "y", " ", "e", "r", "r", "o", "r">>, "ArcGeometryError" >>,
    << <<"u", "n", "k", "n", "o", "w", "n", " ", "o", "b", "j", "e", "c", "t", " ", "t", "y", "p", "e">>, "UnknownObjectType" >>,
    << <<"n", "o", " ", "s", "u", "c", "h", " ", "o", "b", "j", "e", "c", "t">>, "UnknownObject" >>,
    << <<"v", "a", "l", "u", "e", " ", "i", "s", " ", "a", "l", "r", "e", "a", "d", "y", " ", "s", "e", "t">>, "ValueAlreadySet" >>,
    << <<"v", "a", "l", "u", "e", " ", "a", "l", "r", "e", "a", "d", "y", " ", "f", "i", "x", "e", "d", " ", "b", "y", " ", "p", "r", "i", "o", "r", " ", "c", "o", "n", "s", "t", "r", "a", "i", "n", "t", "s">>, "ValueAlreadyFixed" >>,
    << <<"u", "s", "e", " ", "w", "i", "t", "h", " ", "l", "i", "n", "e", "-", "o", "r", "i", "e", "n", "t", "e", "d", " ", "o", "b", "j", "e", "c", "t", "s", " ", "o", "n", "l", "y">>, "OnlyWithLineOrientedObject" >>,
    << <<"n", "o", " ", "p", "r", "i", "o", "r", " ", "p", "a", "t", "h", " ", "p", "o", "i", "n", "t", "s">>, "NoPriorPathPoints" >>,
    << <<"t", "o", "o", " ", "m", "a", "n", "y", " ", "p", "a", "t", "h", " ", "e", "l", "e", "m", "e", "n", "t", "s">>, "NoPriorPathPoints" >>,
    << <<"h", "e", "a", "d", "i", "n", "g", "s", " ", "s", "h", "o", "u", "l", "d", " ", "b", "e", " ", "b", "e", "t", "w", "e", "e", "n", " ", "0", " ", "a", "n", "d", " ", "3", "6", "0">>, "HeadingOutOfBounds" >>,
    << <<"u", "s", "e", " ", "\"", "a", "t", "\"", " ", "t", "o", " ", "p", "o", "s", "i", "t", "i", "o", "n", " ", "t", "h", "i", "s", " ", "o", "b", "j", "e", "c", "t">>, "MissingAt" >>,
    << <<"u", "s", "e", " ", "\"", "f", "r", "o", "m", "\"", " ", "a", "n", "d", " ", "\"", "t", "o", "\"", " ", "t", "o", " ", "p", "o", "s", "i", "t", "i", "o", "n", " ", "t", "h", "i", "s", " ", "o", "b", "j", "e", "c", "t">>, "MissingFromTo" >>,
    << <<"p", "o", "l", "y", "g", "o", "n", " ", "i", "s", " ", "c", "l", "o", "s", "e", "d">>, "ClosedPolygon" >>,
    << <<"n", "e", "e", "d", " ", "a", "t", " ", "l", "e", "a", "s", "t", " ", "3", " ", "v", "e", "r", "t", "e", "x", "e", "s", " ", "i", "n", " ", "o", "r", "d", "e", "r", " ", "t", "o", " ", "c", "l", "o", "s", "e", " ", "t", "h", "e", " ", "p", "o", "l", "y", "g", "o", "n">>, "TooFewVertexes" >>,
    << <<"l", "i", "n", "e", " ", "s", "t", "a", "r", "t", " ", "l", "o", "c", "a", "t", "i", "o", "n", " ", "a", "l", "r", "e", "a", "d", "y", " ", "f", "i", "x", "e", "d">>, "StartLineAlreadyFixed" >>,
    << <<"l", "o", "c", "a", "t", "i", "o", "n", " ", "f", "i", "x", "e", "d", " ", "b", "y", " ", "p", "r", "i", "o", "r", " ", "\"", "a", "t", "\"">>, "PositionAlreadyFixedByAt" >>,
    << <<"t", "o", "o", " ", "m", "a", "n", "y", " ", "t", "e", "x", "t", " ", "t", "e", "r", "m", "s">>, "AttributeTooManyTerms" >>,
    << <<"n", "o", " ", "t", "e", "x", "t", " ", "t", "o", " ", "f", "i", "t", " ", "t", "o">>, "AttributeMissingText" >>,
    << <<"n", "o", "t", " ", "a", " ", "k", "n", "o", "w", "n", " ", "c", "o", "l", "o", "r", " ", "n", "a", "m", "e">>, "UnknownColorName" >>,
    << <<"n", "o", " ", "s", "u", "c", "h", " ", "v", "a", "r", "i", "a", "b", "l", "e">>, "UnknownVariable" >>,
    << <<"v", "a", "l", "u", "e", " ", "t", "o", "o", " ", "b", "i", "g", " ", "-", " ", "m", "a", "x", " ", "'", "1", "0", "0", "0", "t", "h", "'">>, "OrdinalOutOfBounds" >>,
    << <<"n", "o", " ", "p", "r", "i", "o", "r", " ", "o", "b", "j", "e", "c", "t", "s", " ", "o", "f", " ", "t", "h", "e", " ", "s", "a", "m", "e", " ", "t", "y", "p", "e">>, "MissingPriorObjectType" >>,
    << <<"o", "b", "j", "e", "c", "t", " ", "i", "s", " ", "n", "o", "t", " ", "a", " ", "l", "i", "n", "e">>, "NotALine" >>,
    << <<"n", "o", " ", "s", "u", "c", "h", " ", "v", "e", "r", "t", "e", "x">>, "VertexUnknown" >>,
    << <<"s", "q", "r", "t", " ", "o", "f", " ", "n", "e", "g", "a", "t", "i", "v", "e", " ", "v", "a", "l", "u", "e">>, "NegativeSqrt" >>,
    << <<"t", "o", "o", " ", "m", "a", "n", "y", " ", "m", "a", "c", "r", "o", " ", "a", "r", "g", "u", "m", "e", "n", "t", "s", " ", "-", " ", "m", "a", "x", " ", "9">>, "MacroTooManyArguments" >>,
    << <<"u", "n", "t", "e", "r", "m", "i", "n", "a", "t", "e", "d", " ", "m", "a", "c", "r", "o", " ", "a", "r", "g", "u", "m", "e", "n", "t", " ", "l", "i", "s", "t">>, "MacroUnterminatedArgumentList" >>,
    << <<"t", "o", "k", "e", "n", " ", "i", "s", " ", "t", "o", "o", " ", "l", "o", "n", "g", " ", "-", " ", "m", "a", "x", " ", "l", "e", "n", "g", "t", "h", " ", "5", "0", "0", "0", "0", " ", "b", "y", "t", "e", "s">>, "TokenTooLong" >>,
    << <<"u", "n", "r", "e", "c", "o", "g", "n", "i", "z", "e", "d", " ", "t", "o", "k", "e", "n">>, "TokenUnknown" >>,
    << <<"m", "a", "c", "r", "o", "s", " ", "n", "e", "s", "t", "e", "d", " ", "t", "o", "o", " ", "d", "e", "e", "p">>, "MacroTooDeep" >>,
    << <<"r", "e", "c", "u", "r", "s", "i", "v", "e", " ", "m", "a", "c", "r", "o", " ", "d", "e", "f", "i", "n", "i", "t", "i", "o", "n">>, "MacroRecursive" >> >>

\* The messages the match knows.
KnownMessages == { ErrorTable[i][1] : i \in 1..Len(ErrorTable) }

\* `match message { ... msg => Other(msg.to_string(), line_num, col_num) }`:
\* the first arm whose pattern equals the message, else the catch-all.
MatchMessage(message, line_num, col_num) ==
    IF message \in KnownMessages
    THEN LET i == CHOOSE k \in 1..Len(ErrorTable) :
                      /\ ErrorTable[k][1] = message
                      /\ \A j \in 1..(k - 1) : ErrorTable[j][1] # message
         IN PiktError(ErrorTable[i][2], <<>>, line_num, col_num)
    ELSE PiktError("Other", message, line_num, col_num)

\* if line.starts_with("/*") { line_num = line_num + 1; }
CountLine(line, line_num) ==
    IF StartsWith(line, <<"/", "*">>) THEN line_num + 1 ELSE line_num

\* if line.ends_with('^') { col_num = line.len() + 1 - line_padding; }
\* usize arithmetic without overflow checks: col_num is kept as the signed
\* reading of the 64-bit word, so a negative value c is the wrapped 2^64 + c.
CaretColumn(line, col_num) ==
    IF EndsWith(line, <<"^">>) THEN Len(line) + 1 - line_padding ELSE col_num

\* if line.starts_with("ERROR:") { if let Some((_, msg)) = line.split_once(' ')
\* { message = msg }; }
ErrorMessage(line, message) ==
    IF StartsWith(line, <<"E", "R", "R", "O", "R", ":">>) /\ SplitOnceSpace(line).found
    THEN SplitOnceSpace(line).rest
    ELSE message

\* The body of `while let Some(line) = lines.next()`, from line i on.
RECURSIVE ScanLines(_, _, _)
ScanLines(lines, i, st) ==
    IF i > Len(lines) THEN st
    ELSE ScanLines(lines, i + 1,
                   [line_num |-> CountLine(lines[i], st.line_num),
                    col_num |-> CaretColumn(lines[i], st.col_num),
                    message |-> ErrorMessage(lines[i], st.message)])

\* <PiktError as FromStr>::from_str.  It returns Ok in every branch, so the
\* value is the PiktError itself.
from_str(s) ==
    IF Contains(s, StackOverflowNeedle)
    THEN PiktError("ParserStackOverflow", <<>>, 0, 0)
    ELSE IF Contains(s, OutOfMemoryNeedle)
    THEN PiktError("OutOfMemory", <<>>, 0, 0)
    ELSE LET st == ScanLines(Lines(s), 1,
                             [line_num |-> 0, col_num |-> 0,
                              message |-> UnknownErrorMessage])
         IN MatchMessage(st.message, st.line_num, st.col_num)

\* `line.len() + 1 - line_padding` underflows on a line of s: from_str gets
\* past both early returns and meets a line ending in '^' with
\* len() + 1 < line_padding.
SubtractionUnderflows(s) ==
    /\ ~Contains(s, StackOverflowNeedle)
    /\ ~Contains(s, OutOfMemoryNeedle)
    /\ \E i \in 1..Len(Lines(s)) :
          EndsWith(Lines(s)[i], <<"^">>) /\ Len(Lines(s)[i]) + 1 < line_padding

\* A call of from_str in a build with (debug) or without (release) overflow
\* checks: "attempt to subtract with overflow" panics in the first, the
\* subtraction wraps in the second.
from_str_call(s, checks) ==
    IF checks /\ SubtractionUnderflows(s)
    THEN [kind |-> "panic", err |-> PiktError("none", <<>>, 0, 0)]
    ELSE [kind |-> "Ok", err |-> from_str(s)]

(***************************************************************************)
(* Flags, Options and OptionsBuilder.                                      *)
(***************************************************************************)
\* The engine's flag bits, from the bindings generated out of pikchr.h.
PIKCHR_PLAINTEXT_ERRORS == 1
PIKCHR_DARK_MODE == 2

\* Bitwise or / and of two naturals (u32 `|` and `&`).
RECURSIVE BitOr(_, _)
BitOr(a, b) ==
    IF a = 0 THEN b
    ELSE IF b = 0 THEN a
    ELSE (IF a % 2 = 1 \/ b % 2 = 1 THEN 1 ELSE 0) + 2 * BitOr(a \div 2, b \div 2)

RECURSIVE BitAnd(_, _)
BitAnd(a, b) ==
    IF a = 0 \/ b = 0 THEN 0
    ELSE (IF a % 2 = 1 /\ b % 2 = 1 THEN 1 ELSE 0) + 2 * BitAnd(a \div 2, b \div 2)

\* Flags::empty()
Flags_empty == 0

\* The values a Flags can hold: the subsets of its one constant, DARK_MODE.
FlagsValues == { Flags_empty, PIKCHR_DARK_MODE }

\* "pikchr", the class OptionsBuilder::default() starts with.
DefaultClass == <<"p", "i", "k", "c", "h", "r">>

\* impl Default for OptionsBuilder
OptionsBuilder_default ==
    [flags |-> Flags_empty, width |-> 0, height |-> 0, class |-> DefaultClass]

\* OptionsBuilder::flags
OptionsBuilder_flags(self, flags) == [self EXCEPT !.flags = flags]

\* OptionsBuilder::width
OptionsBuilder_width(self, width) == [self EXCEPT !.width = width]

\* OptionsBuilder::height
OptionsBuilder_height(self, height) == [self EXCEPT !.height = height]

\* OptionsBuilder::class
OptionsBuilder_class(self, class) == [self EXCEPT !.class = class]

\* [&str]::join(" ")
RECURSIVE Join(_)
Join(values) ==
    IF Len(values) = 0 THEN <<>>
    ELSE IF Len(values) = 1 THEN values[1]
    ELSE values[1] \o <<" ">> \o Join(Tail(values))

\* OptionsBuilder::classes, pushing the values without the separating space.
OptionsBuilder_classes_noSpace(self, values) ==
    [self EXCEPT !.class = self.class \o Join(values)]

\* OptionsBuilder::classes
OptionsBuilder_classes(self, values) ==
    [self EXCEPT !.class = (self.class \o <<" ">>) \o Join(values)]

\* OptionsBuilder::build
OptionsBuilder_build(self) ==
    [flags |-> self.flags, width |-> self.width, height |-> self.height,
     class |-> self.class]

\* The largest c_int; `as i32` keeps a u32 up to it and wraps a larger one.
I32_MAX == 2147483647
AsI32(x) == IF x <= I32_MAX THEN x ELSE (x - I32_MAX - 1) - I32_MAX - 1

(***************************************************************************)
(* The native engine at its boundary: pikchr(zText, zClass, mFlags,        *)
(* pnWidth, pnHeight).  The compiler itself is not modelled: which outcome *)
(* a markup has is chosen freely among the outcomes the boundary allows.   *)
(***************************************************************************)
\* Width and height of the diagram of the tests (viewBox "0 0 112.32 76.32").
SvgWidth == 112
SvgHeight == 76

IsSpace(c) == c = " " \/ c = "\n"

\* The tokens an error can point at: the words of the markup, as
\* [z |-> index of the first character, n |-> length].
Tokens(zText) ==
    { t \in [z : 1..Len(zText), n : 1..Len(zText)] :
        /\ t.z + t.n - 1 <= Len(zText)
        /\ \A j \in t.z..(t.z + t.n - 1) : ~IsSpace(zText[j])
        /\ (t.z = 1 \/ IsSpace(zText[t.z - 1]))
        /\ (t.z + t.n - 1 = Len(zText) \/ IsSpace(zText[t.z + t.n])) }

\* The index of the last "\n" before index z, 0 when z is on the first line.
LineStart(zText, z) ==
    IF \E i \in 1..(z - 1) : zText[i] = "\n"
    THEN CHOOSE i \in 1..(z - 1) :
             zText[i] = "\n" /\ \A j \in (i + 1)..(z - 1) : zText[j] # "\n"
    ELSE 0

\* The 1-based source line and column of index z.
LineOf(zText, z) == 1 + Cardinality({ i \in 1..(z - 1) : zText[i] = "\n" })
ColumnOf(zText, z) == z - LineStart(zText, z)

\* The source split at every "\n".
RECURSIVE SourceLines(_)
SourceLines(s) ==
    LET i == IndexOf(s, "\n") IN
    IF i = 0 THEN <<s>>
    ELSE <<SubSeq(s, 1, i - 1)>> \o SourceLines(SubSeq(s, i + 1, Len(s)))

\* printf("%d")
RECURSIVE Decimal(_)
Decimal(n) ==
    IF n < 10 THEN <<<<"0", "1", "2", "3", "4", "5", "6", "7", "8", "9">>[n + 1]>>
    ELSE Decimal(n \div 10) \o <<<<"0", "1", "2", "3", "4", "5", "6", "7", "8", "9">>[(n % 10) + 1]>>

RECURSIVE Repeat(_, _)
Repeat(c, n) == IF n <= 0 THEN <<>> ELSE <<c>> \o Repeat(c, n - 1)

\* The prefix of a numbered source line, "/* %4d */  ":
\*     /*    1 */  circle "1"
LinePrefix(n) ==
    <<"/", "*", " ">> \o Repeat(" ", 4 - Len(Decimal(n))) \o Decimal(n) \o <<" ", "*", "/", " ", " ">>

\* The numbered source lines first..last of the markup.
RECURSIVE NumberedLines(_, _, _)
NumberedLines(src, first, last) ==
    IF first > last THEN <<>>
    ELSE LinePrefix(first) \o src[first] \o <<"\n">> \o NumberedLines(src, first + 1, last)

\* The caret line: the carets of a token on the first line start one
\* character left of the token, those of a later line right under it
\* (tests::syntax_error and tests::division_by_zero fix both).
CaretLine(zText, tok) ==
    LET iErrCol == IF LineStart(zText, tok.z) = 0
                   THEN tok.z - 1
                   ELSE tok.z - LineStart(zText, tok.z)
    IN Repeat(" ", iErrCol + 11) \o Repeat("^", tok.n) \o <<"\n">>

\* The diagnostic block: the numbered source lines from o.first to the line
\* of the token, the caret line and the ERROR line.
Diagnostic(zText, o) ==
    NumberedLines(SourceLines(zText), o.first, LineOf(zText, o.tok.z))
        \o CaretLine(zText, o.tok)
        \o <<"E", "R", "R", "O", "R", ":", " ">> \o o.msg \o <<"\n">>

\* The SVG of a successful compile: the class verbatim in the root element,
\* the stroke colour inverted in dark mode.
Svg(zClass, mFlags) ==
    <<"<", "s", "v", "g", " ", "c", "l", "a", "s", "s", "=", "\"">> \o zClass \o <<"\"", ">">>
        \o (IF BitAnd(mFlags, PIKCHR_DARK_MODE) # 0
            THEN <<"r", "g", "b", "(", "2", "5", "5", ",", "2", "5", "5", ",", "2", "5", "5", ")">> ELSE <<"r", "g", "b", "(", "0", ",", "0", ",", "0", ")">>)
        \o <<"<", "/", "s", "v", "g", ">", "\n">>

NoToken == [z |-> 0, n |-> 0]

\* The outcomes of one engine call on zText, with error messages from msgs.
EngineOutcomes(zText, msgs) ==
    { [kind |-> k, tok |-> NoToken, first |-> 0, msg |-> <<>>] :
          k \in {"svg", "stack", "oom", "null"} }
    \cup UNION { { [kind |-> "error", tok |-> t, first |-> f, msg |-> m] :
                     f \in 1..LineOf(zText, t.z), m \in msgs } :
                 t \in Tokens(zText) }

\* What the engine hands back: the malloc'ed buffer (or NULL) and the values
\* written through pnWidth and pnHeight.
pikchr(zText, zClass, mFlags, o) ==
    CASE o.kind = "svg" ->
           [ptr |-> "live", text |-> Svg(zClass, mFlags),
            width |-> SvgWidth, height |-> SvgHeight]
      [] o.kind = "error" ->
           [ptr |-> "live", text |-> Diagnostic(zText, o), width |-> -1, height |-> -1]
      [] o.kind = "stack" ->
           [ptr |-> "live", text |-> StackOverflowNeedle, width |-> -1, height |-> -1]
      [] o.kind = "oom" ->
           [ptr |-> "live", text |-> <<"\n">> \o OutOfMemoryNeedle \o <<"\n">>,
            width |-> -1, height |-> -1]
      [] o.kind = "null" ->
           [ptr |-> "null", text |-> <<>>, width |-> -1, height |-> -1]

(***************************************************************************)
(* The inputs the caller draws from.                                       *)
(***************************************************************************)
WidthArgs == {0, 300}
HeightArgs == {150}
ClassArgs == { <<"d", "i", "a">>, <<"a", NUL>> }
ClassesArgs == { <<>>, << <<"f", "o", "o">>, <<"b", "a", "r">> >> }

\* Markup handed to render / render_with when the options are varied.
Markups == { <<"b", "o", "x", " ", "\"", "p", "i", "k", "c", "h", "r", "\"">>, <<"b", "o", "x", " ", "\"", "p", "i", "k", "c", "h", "r", "\"", NUL>>, <<"c", "i", "r", "c", " ", "\"", "1", "\"">> }
\* The engine's messages in those runs.
Messages == { <<"s", "y", "n", "t", "a", "x", " ", "e", "r", "r", "o", "r">>, <<"u", "n", "f", "o", "r", "e", "s", "e", "e", "n">> }

\* Markup of the runs that explore the diagnostics.
DiagMarkups ==
    { <<"c", "i", "r", "c", " ", "\"", "1", "\"">>,
      <<"a", "r", "r", "o", "w", " ", "f", "r", "o", "m", " ", "A", " ", "t", "o", " ", "B">>,
      <<"b", "o", "x", "\n", " ", " ", "(", "0", " ", "/", " ", "0", ",", " ", "0", ")", "\n", " ", " ">>,
      <<"a", "\n", "b", "\n", "c", "i", "r", "c", " ", "\"", "p", "a", "r", "s", "e", "r", " ", "s", "t", "a", "c", "k", " ", "o", "v", "e", "r", "f", "l", "o", "w", "\"">>,
      <<"b", "o", "x", " ", "\"", "O", "u", "t", " ", "o", "f", " ", "m", "e", "m", "o", "r", "y", "\"", " ", "l", "e", "f">> }
\* Every message the match knows, and two it does not.
DiagMessages == KnownMessages \cup { <<"u", "n", "f", "o", "r", "e", "s", "e", "e", "n">>, <<"u", "n", "k", "n", "o", "w", "n", " ", "e", "r", "r", "o", "r">> }

(***************************************************************************)
(* State.                                                                  *)
(***************************************************************************)
VARIABLES
    pc,            \* where the caller / render_with stands
    builder,       \* the caller's OptionsBuilder
    calls,         \* the setter calls made on the builder, in order
    via,           \* the entry point used: "render" or "render_with"
    input,         \* render_with's input
    options,       \* render_with's options
    width,         \* render_with's local `width: c_int`
    height,        \* render_with's local `height: c_int`
    engine_calls,  \* how often pikchr() was invoked
    engine_args,   \* the arguments of that invocation
    fault,         \* the outcome the engine had
    res,           \* the buffer `res`: its state and its bytes
    frees,         \* how often a buffer of the engine was freed
    output,        \* the owned String `output`
    ub,            \* undefined behaviour met so far
    result,        \* what render_with returned
    overflow_checks, \* the build profile: TRUE with overflow checks (debug)
    parsed         \* the text a caller handed to from_str, and what came back

vars == << pc, builder, calls, via, input, options, width, height,
           engine_calls, engine_args, fault, res, frees, output, ub, result,
           overflow_checks, parsed >>

NoError == PiktError("none", <<>>, 0, 0)
NoResult == [kind |-> "none", text |-> <<>>, err |-> NoError]
Ok(text) == [kind |-> "Ok", text |-> text, err |-> NoError]
Err(e) == [kind |-> "Err", text |-> <<>>, err |-> e]
NoArgs == [zText |-> <<>>, zClass |-> <<>>, mFlags |-> 0]
NoFault == [kind |-> "none", tok |-> NoToken, first |-> 0, msg |-> <<>>]

NotParsed == [input |-> <<>>, kind |-> "none", err |-> NoError]

Call(op, num, text, list) == [op |-> op, num |-> num, text |-> text, list |-> list]

Init ==
    /\ pc = "caller"
    /\ builder = OptionsBuilder_default
    /\ calls = <<>>
    /\ via = "none"
    /\ input = <<>>
    /\ options = OptionsBuilder_build(OptionsBuilder_default)
    /\ width = 0
    /\ height = 0
    /\ engine_calls = 0
    /\ engine_args = NoArgs
    /\ fault = NoFault
    /\ res = [ptr |-> "none", text |-> <<>>]
    /\ frees = 0
    /\ output = [set |-> FALSE, text |-> <<>>]
    /\ ub = {}
    /\ result = NoResult
    /\ overflow_checks \in BOOLEAN
    /\ parsed = NotParsed

(***************************************************************************)
(* The caller configures the builder.                                      *)
(***************************************************************************)
Configure(b, c) ==
    /\ pc = "caller"
    /\ Len(calls) < MaxCalls
    /\ builder' = b
    /\ calls' = Append(calls, c)
    /\ UNCHANGED << pc, via, input, options, width, height, engine_calls,
                    engine_args, fault, res, frees, output, ub, result,
                    overflow_checks, parsed >>

SetFlags ==
    \E f \in FlagsValues :
        Configure(OptionsBuilder_flags(builder, f), Call("flags", f, <<>>, <<>>))

SetWidth ==
    \E w \in WidthArgs :
        Configure(OptionsBuilder_width(builder, w), Call("width", w, <<>>, <<>>))

SetHeight ==
    \E h \in HeightArgs :
        Configure(OptionsBuilder_height(builder, h), Call("height", h, <<>>, <<>>))

SetClass ==
    \E c \in ClassArgs :
        Configure(OptionsBuilder_class(builder, c), Call("class", 0, c, <<>>))

SetClasses ==
    \E vs \in ClassesArgs :
        Configure(OptionsBuilder_classes(builder, vs), Call("classes", 0, <<>>, vs))

(***************************************************************************)
(* render and render_with.                                                 *)
(***************************************************************************)
\* The options render hands to render_with.
render_options == OptionsBuilder_build(OptionsBuilder_default)

Enter(how, text, opts) ==
    /\ pc = "caller"
    /\ via' = how
    /\ input' = text
    /\ options' = opts
    /\ pc' = "cstrings"
    /\ UNCHANGED << builder, calls, width, height, engine_calls, engine_args,
                    fault, res, frees, output, ub, result,
                    overflow_checks, parsed >>

\* render(input)
render(markups) ==
    \E text \in markups : Enter("render", text, render_options)

\* render_with(input, builder.build())
render_with(markups) ==
    \E text \in markups : Enter("render_with", text, OptionsBuilder_build(builder))

\* render_with freeing the buffer before it copies the bytes out of it.
StepAfter_freeFirst(p) ==
    CASE p = "cstrings" -> "call"
      [] p = "call" -> "free"
      [] p = "free" -> "copy"
      [] p = "copy" -> "return"
      [] p = "return" -> "done"

\* The order of render_with's statements after the CStrings are made.
StepAfter(p) ==
    CASE p = "cstrings" -> "call"
      [] p = "call" -> "copy"
      [] p = "copy" -> "free"
      [] p = "free" -> "return"
      [] p = "return" -> "done"

\* The NulError of CString::new: the position of the first NUL byte and the bytes.
NulError(s) == PiktError("IncompatibleInput", s, IndexOf(s, NUL) - 1, 0)

\* render_with converting the class without the `?`.
CStrings_inputOnly(opts, text) ==
    IF HasNul(text) THEN Err(NulError(text)) ELSE NoResult

\* let class = CString::new(options.class())?; let input = CString::new(input)?;
CStrings(opts, text) ==
    IF HasNul(opts.class) THEN Err(NulError(opts.class))
    ELSE IF HasNul(text) THEN Err(NulError(text))
    ELSE NoResult

\* let mut width = options.width() as i32; ... CString::new(..)?
RW_CStrings ==
    /\ pc = "cstrings"
    /\ width' = AsI32(options.width)
    /\ height' = AsI32(options.height)
    /\ result' = CStrings(options, input)
    /\ pc' = IF CStrings(options, input).kind = "Err" THEN "done" ELSE StepAfter(pc)
    /\ UNCHANGED << builder, calls, via, input, options, engine_calls,
                    engine_args, fault, res, frees, output, ub,
                    overflow_checks, parsed >>

\* render_with passing the caller's bits alone.
EngineFlags_unforced(opts) == opts.flags

\* options.flags().bits() | PIKCHR_PLAINTEXT_ERRORS
EngineFlags(opts) == BitOr(opts.flags, PIKCHR_PLAINTEXT_ERRORS)

\* let res = unsafe { pikchr(input, class, flags, &mut width, &mut height) };
RW_Pikchr(msgs) ==
    /\ pc = "call"
    /\ \E o \in EngineOutcomes(input, msgs) :
         LET r == pikchr(input, options.class, EngineFlags(options), o) IN
         /\ fault' = o
         /\ res' = [ptr |-> r.ptr, text |-> r.text]
         /\ width' = r.width
         /\ height' = r.height
    /\ engine_calls' = engine_calls + 1
    /\ engine_args' = [zText |-> input, zClass |-> options.class,
                       mFlags |-> EngineFlags(options)]
    /\ pc' = StepAfter(pc)
    /\ UNCHANGED << builder, calls, via, input, options, frees, output, ub, result,
                    overflow_checks, parsed >>

\* A byte sequence that is not UTF-8, and what from_utf8_lossy puts for it.
InvalidByte == "0xFF"
ReplacementChar == "U+FFFD"
from_utf8_lossy(bytes) ==
    [i \in 1..Len(bytes) |->
        IF bytes[i] = InvalidByte THEN ReplacementChar ELSE bytes[i]]

\* What a read through a NULL or freed pointer may yield when it does not
\* end the process.
GarbageTexts == { <<>> }

\* let cstr = unsafe { CStr::from_ptr(res) };
\* let output = String::from_utf8_lossy(cstr.to_bytes()).into_owned();
RW_Copy ==
    /\ pc = "copy"
    /\ \/ /\ res.ptr = "live"
          /\ output' = [set |-> TRUE, text |-> from_utf8_lossy(res.text)]
          /\ pc' = StepAfter(pc)
          /\ ub' = ub
       \/ /\ res.ptr \in {"null", "freed"}
          /\ ub' = ub \cup {IF res.ptr = "null" THEN "null_deref" ELSE "use_after_free"}
          /\ \/ /\ pc' = "aborted"
                /\ output' = output
             \/ /\ pc' = StepAfter(pc)
                /\ \E g \in GarbageTexts \cup {from_utf8_lossy(res.text)} :
                     output' = [set |-> TRUE, text |-> g]
    /\ UNCHANGED << builder, calls, via, input, options, width, height,
                    engine_calls, engine_args, fault, res, frees, result,
                    overflow_checks, parsed >>

\* unsafe { free(res as *mut c_void) };
RW_Free ==
    /\ pc = "free"
    /\ \/ /\ res.ptr = "live"
          /\ res' = [res EXCEPT !.ptr = "freed"]
          /\ frees' = frees + 1
          /\ pc' = StepAfter(pc)
          /\ ub' = ub
       \/ /\ res.ptr = "null"
          /\ pc' = StepAfter(pc)
          /\ UNCHANGED << res, frees, ub >>
       \/ /\ res.ptr = "freed"
          /\ ub' = ub \cup {"double_free"}
          /\ frees' = frees + 1
          /\ pc' \in {"aborted", StepAfter(pc)}
          /\ res' = res
    /\ UNCHANGED << builder, calls, via, input, options, width, height,
                    engine_calls, engine_args, fault, output, result,
                    overflow_checks, parsed >>

\* if width < 0 { return Err(PiktError::from_str(&output).unwrap()); } Ok(output)
Returned(w, text) == IF w < 0 THEN Err(from_str(text)) ELSE Ok(text)

RW_Return ==
    /\ pc = "return"
    /\ IF width < 0 /\ from_str_call(output.text, overflow_checks).kind = "panic"
       THEN pc' = "aborted" /\ result' = result
       ELSE result' = Returned(width, output.text) /\ pc' = StepAfter(pc)
    /\ UNCHANGED << builder, calls, via, input, options, width, height,
                    engine_calls, engine_args, fault, res, frees, output, ub,
                    overflow_checks, parsed >>

Next ==
    \/ SetFlags \/ SetWidth \/ SetHeight \/ SetClass \/ SetClasses
    \/ render(Markups) \/ render_with(Markups)
    \/ RW_CStrings \/ RW_Pikchr(Messages) \/ RW_Copy \/ RW_Free \/ RW_Return

Spec == Init /\ [][Next]_vars

\* The runs that explore the engine's diagnostics: render on DiagMarkups.
NextDiag ==
    \/ render(DiagMarkups)
    \/ RW_CStrings \/ RW_Pikchr(DiagMessages) \/ RW_Copy \/ RW_Free \/ RW_Return

SpecDiag == Init /\ [][NextDiag]_vars

(***************************************************************************)
(* PiktError::from_str called on its own, as `impl FromStr` lets any       *)
(* caller do.                                                              *)
(***************************************************************************)
\* The longest left padding of a caret line handed to from_str.
MaxPad == 12
\* The number of lines of a text handed to from_str.
MaxInputLines == 2

\* The lines such a text is made of: caret lines of every padding, a
\* numbered source line, ERROR lines, and lines that are none of these.
FromStrLines ==
    { Repeat(" ", k) \o <<"^">> : k \in 0..MaxPad }
    \cup { <<"/", "*", " ", " ", " ", " ", "1", " ", "*", "/", " ", " ", "b", "o", "x">>, <<"E", "R", "R", "O", "R", ":", " ", "s", "y", "n", "t", "a", "x", " ", "e", "r", "r", "o", "r">>, <<"E", "R", "R", "O", "R", ":">>, <<"b", "o", "x">>, <<>> }

RECURSIVE Terminated(_)
Terminated(ls) ==
    IF ls = <<>> THEN <<>> ELSE ls[1] \o <<"\n">> \o Terminated(Tail(ls))

\* Texts of up to MaxInputLines lines, the last one with or without its "\n".
FromStrInputs ==
    LET texts == { Terminated(ls) :
                     ls \in UNION { [1..n -> FromStrLines] : n \in 0..MaxInputLines } }
    IN texts \cup { SubSeq(t, 1, Len(t) - 1) : t \in texts \ {<<>>} }

\* s.parse::<PiktError>() / PiktError::from_str(s)
parse ==
    /\ pc = "caller"
    /\ parsed.kind = "none"
    /\ \E s \in FromStrInputs :
         parsed' = [input |-> s,
                    kind |-> from_str_call(s, overflow_checks).kind,
                    err |-> from_str_call(s, overflow_checks).err]
    /\ UNCHANGED << pc, builder, calls, via, input, options, width, height,
                    engine_calls, engine_args, fault, res, frees, output, ub,
                    result, overflow_checks >>

NextFromStr == parse

SpecFromStr == Init /\ [][NextFromStr]_vars

(***************************************************************************)
(* Properties.                                                             *)
(***************************************************************************)
Finished == pc \in {"done", "aborted"}
Invoked == engine_calls > 0

\* The engine reported an error at a token, and render_with has returned.
PositionedFailure == pc = "done" /\ fault.kind = "error"

\* The argument of the last `op` setter call of the log, or the default.
RECURSIVE LastNum(_, _, _)
LastNum(log, op, default) ==
    IF log = <<>> THEN default
    ELSE IF log[Len(log)].op = op THEN log[Len(log)].num
    ELSE LastNum(SubSeq(log, 1, Len(log) - 1), op, default)

\* The values, each preceded by one space but the first.
RECURSIVE SpaceJoined(_)
SpaceJoined(values) ==
    IF values = <<>> THEN <<>>
    ELSE IF Len(values) = 1 THEN values[1]
    ELSE SpaceJoined(SubSeq(values, 1, Len(values) - 1)) \o <<" ">> \o values[Len(values)]

\* The class the log asks for: the argument of the last class() call, or
\* "pikchr", then a space and the joined values of every later classes() call.
RECURSIVE ExpectedClass(_)
ExpectedClass(log) ==
    IF log = <<>> THEN <<"p", "i", "k", "c", "h", "r">>
    ELSE LET last == log[Len(log)]
             before == SubSeq(log, 1, Len(log) - 1)
         IN IF last.op = "class" THEN last.text
            ELSE IF last.op = "classes"
            THEN ExpectedClass(before) \o <<" ">> \o SpaceJoined(last.list)
            ELSE ExpectedClass(before)

ExpectedOptions(log) ==
    [flags |-> LastNum(log, "flags", 0), width |-> LastNum(log, "width", 0),
     height |-> LastNum(log, "height", 0), class |-> ExpectedClass(log)]

\* The flags the caller asked for: those of the last flags() call when the
\* builder's options are used, none otherwise.
CallerFlags == IF via = "render_with" THEN LastNum(calls, "flags", 0) ELSE 0

\* The markup or the class holds a NUL byte.
NulGiven == HasNul(input) \/ HasNul(options.class)

\* C1: whenever the engine was invoked, render_with ends returning Err exactly
\* when the width written back is negative, and otherwise Ok with exactly the
\* text of the engine.
C1_SentinelDecides ==
    (Invoked /\ Finished) =>
        IF width < 0 THEN result.kind = "Err" ELSE result = Ok(res.text)

\* C2: the bitmask handed to the engine is the caller's flag bits with the
\* plaintext-errors bit added: plaintext-errors is always set and dark-mode
\* is set exactly when the caller set Flags::DARK_MODE.
C2_PlaintextForced ==
    Invoked =>
        /\ BitAnd(engine_args.mFlags, PIKCHR_PLAINTEXT_ERRORS) = PIKCHR_PLAINTEXT_ERRORS
        /\ (BitAnd(engine_args.mFlags, PIKCHR_DARK_MODE) = PIKCHR_DARK_MODE)
               <=> (CallerFlags = PIKCHR_DARK_MODE)
        /\ engine_args.mFlags = CallerFlags + PIKCHR_PLAINTEXT_ERRORS
C2_Witness ==
    /\ Invoked /\ via = "render_with"
    /\ CallerFlags = PIKCHR_DARK_MODE
    /\ engine_args.mFlags = PIKCHR_DARK_MODE + PIKCHR_PLAINTEXT_ERRORS

\* C3: with a NUL byte in the markup or in the class, render_with returns
\* Err(IncompatibleInput) and the engine is never invoked, no buffer obtained
\* or freed; without one, IncompatibleInput is never returned.
C3_NulRejected ==
    (pc # "caller") =>
        /\ NulGiven =>
             /\ ~Invoked /\ res.ptr = "none" /\ frees = 0
             /\ pc \in {"cstrings", "done"}
             /\ (pc = "done" =>
                   result.kind = "Err" /\ result.err.variant = "IncompatibleInput")
        /\ ~NulGiven => result.err.variant # "IncompatibleInput"
C3_Witness ==
    /\ pc = "done" /\ HasNul(options.class) /\ ~HasNul(input)
    /\ result.kind = "Err" /\ result.err.variant = "IncompatibleInput"
    /\ ~Invoked

\* C4: for a failing compile that carries a position, the line of the
\* returned PiktError is the 1-based source line of the offending token.
C4_LineIsSourceLine ==
    (PositionedFailure
         /\ result.err.variant \notin {"ParserStackOverflow", "OutOfMemory"}) =>
        result.err.line = LineOf(input, fault.tok.z)

\* C5: for a failing compile that carries a position, the column of the
\* returned PiktError is the 1-based column of the offending token in its
\* source line, whatever the line and the length of the token.
C5_ColumnIsTokenColumn ==
    (PositionedFailure
         /\ result.err.variant \notin {"ParserStackOverflow", "OutOfMemory"}) =>
        result.err.col = ColumnOf(input, fault.tok.z)

\* C6: build() returns the values of the last setter calls (or empty, 0, 0),
\* the class of the last class() call (or "pikchr") followed by a space and
\* the space-joined values of each later classes() call; render uses the
\* options of an untouched builder, and the engine gets that class.
C6_BuildReflectsCalls ==
    /\ OptionsBuilder_build(builder) = ExpectedOptions(calls)
    /\ (pc # "caller") =>
         options = (IF via = "render" THEN ExpectedOptions(<<>>)
                    ELSE ExpectedOptions(calls))
    /\ Invoked => engine_args.zClass = options.class
C6_Witness ==
    /\ Invoked /\ via = "render_with"
    /\ Len(calls) = 2 /\ calls[1].op = "class" /\ calls[2].op = "classes"
    /\ calls[2].list # <<>>
    /\ engine_args.zClass = <<"d", "i", "a", " ", "f", "o", "o", " ", "b", "a", "r">>

\* C7: whatever the engine hands back, a diagram, a diagnostic or NULL,
\* render_with returns a value: it never reads through or frees a missing
\* buffer and never aborts.
C7_NullBufferHandled ==
    (Invoked /\ res.ptr = "null") =>
        /\ ub = {}
        /\ pc # "aborted"
        /\ (pc = "done" => result.kind \in {"Ok", "Err"})

\* C8: the buffer the engine returned is freed exactly once, after its bytes
\* were copied into the owned String and before render_with returns, on the
\* success and on the failure path; nothing is read from the freed buffer.
C8_FreedOnceAfterCopy ==
    (Invoked /\ res.ptr # "null") =>
        /\ frees <= 1
        /\ (res.ptr = "freed") <=> (frees = 1)
        /\ (res.ptr = "freed") =>
               output.set /\ output.text = from_utf8_lossy(res.text)
        /\ ub = {}
        /\ pc # "aborted"
        /\ (pc = "done") =>
               /\ res.ptr = "freed"
               /\ result = Returned(width, from_utf8_lossy(res.text))
C8_Witness ==
    /\ pc = "done" /\ Invoked /\ width < 0
    /\ res.ptr = "freed" /\ frees = 1 /\ result.kind = "Err"

\* C9: ParserStackOverflow and OutOfMemory are returned only when the
\* engine's own message says so: text of the markup reproduced in the
\* diagnostic never changes the variant nor discards line and column.
C9_OnlyEngineMessageDecides ==
    (pc = "done" /\ Invoked) =>
        /\ (result.err.variant = "ParserStackOverflow") => (fault.kind = "stack")
        /\ (result.err.variant = "OutOfMemory") => (fault.kind = "oom")

\* C10: for diagnostics with the same line and column, two different
\* messages never yield the same PiktError; a message outside the table
\* yields Other carrying it verbatim.
C10_MessagesKeptApart ==
    (PositionedFailure
         /\ result.err.variant \notin {"ParserStackOverflow", "OutOfMemory"}) =>
        /\ \A m \in DiagMessages \ {fault.msg} :
             from_str(Diagnostic(input, [fault EXCEPT !.msg = m])) # result.err
        /\ (fault.msg \notin KnownMessages) =>
             (result.err.variant = "Other" /\ result.err.msg = fault.msg)

\* C11: from_str is total: for every text, also one with a line ending in
\* '^' shorter than the left padding, it returns Ok with a non-negative
\* column computed without unsigned underflow.
C11_FromStrTotal ==
    (parsed.kind # "none") =>
        /\ parsed.kind = "Ok"
        /\ parsed.err.col >= 0
        /\ ~SubtractionUnderflows(parsed.input)

=============================================================================
